---- MODULE Spec2Model ----
(***************************************************************************)
(* Model of fetch_data.py (Polymarket Data Logger v2): the metadata        *)
(* resolver, the orderbook and midpoint readers, the Gamma fallback, the   *)
(* row construction in main and the CSV writer.                            *)
(*                                                                         *)
(* Values.  A JSON / Python scalar is a record [t, n, s]: t is its type    *)
(* tag, n its numeric value and s its text (a sequence of fragments; the   *)
(* text of a question is one fragment per character).  Decimal numbers     *)
(* are fixed-point integers counting hundred-thousandths (0.62 is 62000),  *)
(* so that round(x, 4) and round(x, 2) are real roundings.                 *)
(*   "null"    None / JSON null                                            *)
(*   "missing" the key is absent from the dict                             *)
(*   "num"     a JSON number (int or float)                                *)
(*   "numstr"  a string that spells a decimal number, e.g. "0.62"          *)
(*   "text"    any other string                                            *)
(***************************************************************************)
EXTENDS Integers, Sequences, FiniteSets

VARIABLES
    file_exists,  \* os.path.exists(DATA_FILE)
    file,         \* the lines of DATA_FILE, each a sequence of cells
    clock,        \* the wall clock, in seconds
    runs,         \* invocations of main started so far
    pc,           \* position of the running main
    timestamp,    \* main: timestamp
    rows,         \* main: rows
    i,            \* main: index of the slug of the for loop
    markets,      \* main: markets
    token_id,     \* main: token_id
    book,         \* get_orderbook: the response of the last /book request
    orderbook,    \* main: orderbook
    midpoint,     \* main: midpoint
    event,        \* the response of the last /events request
    gamma_data,   \* main: gamma_data
    log           \* the per-slug progress lines printed by this run

vars == <<file_exists, file, clock, runs, pc, timestamp, rows, i, markets,
          token_id, book, orderbook, midpoint, event, gamma_data, log>>

MaxRuns == 2

MARKET_SLUGS == <<"fed-decision-in-january",
                  "who-will-trump-nominate-as-fed-chair",
                  "us-strikes-iran-by">>

fieldnames == <<"timestamp", "slug", "question", "price", "best_bid",
                "best_ask", "spread", "bid_depth", "ask_depth", "volume",
                "liquidity">>

-----------------------------------------------------------------------------
(* Python values *)

J(t, n, s) == [t |-> t, n |-> n, s |-> s]
None == J("null", 0, <<>>)
Missing == J("missing", 0, <<>>)
Num(n) == J("num", n, <<>>)
NumStr(n) == J("numstr", n, <<>>)
Text(s) == J("text", 0, s)

\* dict.get(key, default)
Get(v, default) == IF v.t = "missing" THEN default ELSE v

\* bool(v): None, 0, 0.0 and "" are false
Truthy(v) ==
    CASE v.t = "null" -> FALSE
      [] v.t = "missing" -> FALSE
      [] v.t = "num" -> v.n # 0
      [] v.t = "numstr" -> TRUE
      [] v.t = "text" -> v.s # <<>>

\* float(v) returns; otherwise it raises TypeError or ValueError
CanFloat(v) == v.t \in {"num", "numstr"}
Float(v) == Num(v.n)

\* v[:100] returns (v is a string); otherwise it raises TypeError
CanSlice(v) == v.t \in {"text", "numstr"}
Slice100(v) ==
    IF v.t = "text"
    THEN Text(SubSeq(v.s, 1, IF Len(v.s) < 100 THEN Len(v.s) ELSE 100))
    ELSE v

\* x rounded to the nearest multiple of q, ties to the even multiple
RoundTo(x, q) ==
    LET lo == (x \div q) * q
        r == x - lo
    IN  IF 2 * r < q THEN lo
        ELSE IF 2 * r > q THEN lo + q
        ELSE IF (x \div q) % 2 = 0 THEN lo ELSE lo + q

\* round(x, 4) and round(x, 2) on hundred-thousandths
Round4(x) == RoundTo(x, 10)
Round2(x) == RoundTo(x, 1000)

-----------------------------------------------------------------------------
(* get_orderbook *)

DefaultOrderbook ==
    [best_bid |-> None, best_ask |-> None, spread |-> None,
     bid_depth |-> Num(0), ask_depth |-> Num(0)]

EntryPrice(e) == Get(e.price, Num(0))
EntrySize(e) == Get(e.size, Num(0))

SizesParse(side) == \A k \in 1..Len(side) : CanFloat(EntrySize(side[k]))

RECURSIVE SumSizes(_)
SumSizes(side) ==
    IF side = <<>> THEN 0
    ELSE EntrySize(Head(side)).n + SumSizes(Tail(side))

\* The statements of the try block, in order; an exception leaves result as
\* the statements before it made it.
AfterBids(result, bids) ==
    IF bids = <<>> THEN [raised |-> FALSE, result |-> result]
    ELSE IF ~CanFloat(EntryPrice(bids[1]))
    THEN [raised |-> TRUE, result |-> result]
    ELSE LET r1 == [result EXCEPT !.best_bid = Float(EntryPrice(bids[1]))]
         IN  IF ~SizesParse(bids)
             THEN [raised |-> TRUE, result |-> r1]
             ELSE [raised |-> FALSE,
                   result |-> [r1 EXCEPT !.bid_depth = Num(SumSizes(bids))]]

AfterAsks(result, asks) ==
    IF asks = <<>> THEN [raised |-> FALSE, result |-> result]
    ELSE IF ~CanFloat(EntryPrice(asks[1]))
    THEN [raised |-> TRUE, result |-> result]
    ELSE LET r1 == [result EXCEPT !.best_ask = Float(EntryPrice(asks[1]))]
         IN  IF ~SizesParse(asks)
             THEN [raised |-> TRUE, result |-> r1]
             ELSE [raised |-> FALSE,
                   result |-> [r1 EXCEPT !.ask_depth = Num(SumSizes(asks))]]

WithSpread(result) ==
    IF Truthy(result.best_bid) /\ Truthy(result.best_ask)
    THEN [result EXCEPT
            !.spread = Num(Round4(result.best_ask.n - result.best_bid.n))]
    ELSE result

get_orderbook(tok, resp) ==
    IF ~Truthy(tok) THEN DefaultOrderbook
    ELSE IF resp.status # "ok" THEN DefaultOrderbook
    ELSE LET b == AfterBids(DefaultOrderbook, resp.bids)
         IN  IF b.raised THEN b.result
             ELSE LET a == AfterAsks(b.result, resp.asks)
                  IN  IF a.raised THEN a.result
                      ELSE WithSpread(a.result)

-----------------------------------------------------------------------------
(* get_midpoint *)

get_midpoint(tok, resp) ==
    IF ~Truthy(tok) THEN None
    ELSE IF resp.status # "ok" THEN None
    ELSE IF CanFloat(Get(resp.mid, Num(0)))
         THEN Float(Get(resp.mid, Num(0)))
         ELSE None

-----------------------------------------------------------------------------
(* The outcomePrices field: a record [t, l].                               *)
(*   "missing"  no such key (or an empty string)                           *)
(*   "list"     a JSON array l                                             *)
(*   "liststr"  a string that spells the list l, e.g. '["0.95","0.05"]'    *)
(*   "text"     a string that eval() does not evaluate: it raises          *)

NoPrices == [t |-> "missing", l |-> <<>>]
PriceList(l) == [t |-> "list", l |-> l]
PriceListStr(l) == [t |-> "liststr", l |-> l]
PriceText == [t |-> "text", l |-> <<>>]

PricesTruthy(op) == op.t \in {"liststr", "text"} \/ (op.t = "list" /\ op.l # <<>>)
EvalRaises(op) == op.t = "text"

\* float(prices[0]) if prices[0] else None
FirstPriceRaises(prices) == Truthy(prices[1]) /\ ~CanFloat(prices[1])
FirstPrice(prices) == IF Truthy(prices[1]) THEN Float(prices[1]) ELSE None

-----------------------------------------------------------------------------
(* get_markets_for_event *)

SlugText(slug) == Text(<<slug>>)
Yes == Text(<<"Yes">>)

Descriptor(slug, question, tok, outcome, price) ==
    [slug |-> SlugText(slug), question |-> question, token_id |-> tok,
     outcome |-> outcome, price_from_gamma |-> price]

HasTokens(market) == market.clobTokenIds # <<>>

\* the for loop over event["markets"]: one descriptor per market with tokens
TokenDescriptors(slug, ms) ==
    LET with == SelectSeq(ms, HasTokens)
    IN  [k \in 1..Len(with) |->
            Descriptor(slug, Get(with[k].question, Text(<<>>)),
                       with[k].clobTokenIds[1],
                       IF with[k].outcomes # <<>> THEN with[k].outcomes[1] ELSE Yes,
                       Missing)]

\* no market has tokens: one synthetic descriptor from the first market's
\* outcomePrices, or nothing
SyntheticDescriptors(slug, ev) ==
    LET market == ev.markets[1]
        op == market.outcomePrices
    IN  IF ~PricesTruthy(op) THEN <<>>
        ELSE IF EvalRaises(op) THEN <<>>
        ELSE IF op.l = <<>> THEN <<>>
        ELSE IF FirstPriceRaises(op.l) THEN <<>>
        ELSE <<Descriptor(slug,
                          Get(market.question, Get(ev.title, SlugText(slug))),
                          None, Yes, FirstPrice(op.l))>>

get_markets_for_event(slug, resp) ==
    IF resp.status # "ok" \/ resp.events = <<>> THEN <<>>
    ELSE LET ev == resp.events[1]
             found == TokenDescriptors(slug, ev.markets)
         IN  IF found = <<>> /\ ev.markets # <<>>
             THEN SyntheticDescriptors(slug, ev)
             ELSE found

-----------------------------------------------------------------------------
(* get_price_from_gamma *)

NoGamma ==
    [some |-> FALSE, question |-> None, price |-> None, volume |-> None,
     liquidity |-> None]

get_price_from_gamma(slug, resp) ==
    IF resp.status # "ok" \/ resp.events = <<>> THEN NoGamma
    ELSE LET ev == resp.events[1]
         IN  IF ev.markets = <<>> THEN NoGamma
             ELSE LET market == ev.markets[1]
                      op == market.outcomePrices
                  IN  IF ~PricesTruthy(op) THEN NoGamma
                      ELSE IF EvalRaises(op) THEN NoGamma
                      ELSE IF op.l = <<>> THEN NoGamma
                      ELSE IF FirstPriceRaises(op.l) THEN NoGamma
                      ELSE [some |-> TRUE,
                            question |-> Get(market.question,
                                             Get(ev.title, SlugText(slug))),
                            price |-> FirstPrice(op.l),
                            volume |-> Get(market.volume, Text(<<"0">>)),
                            liquidity |-> Get(market.liquidity, Text(<<"0">>))]

-----------------------------------------------------------------------------
(* main: the two row constructions, and write_to_csv *)

\* if markets and markets[0].get("token_id")
UseClob(ms) == ms # <<>> /\ Truthy(ms[1].token_id)

\* ClobRow filling volume and liquidity as the fallback does when the market
\* record has none
ClobRowWithVolume(ts, slug, market, ob, mid) ==
    [timestamp |-> ts, slug |-> SlugText(slug),
     question |-> Slice100(market.question),
     price |-> mid,
     best_bid |-> ob.best_bid, best_ask |-> ob.best_ask, spread |-> ob.spread,
     bid_depth |-> Num(Round2(ob.bid_depth.n)),
     ask_depth |-> Num(Round2(ob.ask_depth.n)),
     volume |-> Text(<<"0">>), liquidity |-> Text(<<"0">>)]

ClobRow(ts, slug, market, ob, mid) ==
    [timestamp |-> ts, slug |-> SlugText(slug),
     question |-> Slice100(market.question),
     price |-> mid,
     best_bid |-> ob.best_bid, best_ask |-> ob.best_ask, spread |-> ob.spread,
     bid_depth |-> Num(Round2(ob.bid_depth.n)),
     ask_depth |-> Num(Round2(ob.ask_depth.n)),
     volume |-> Text(<<>>), liquidity |-> Text(<<>>)]

\* GammaRow stamping the row with the time it is built at
GammaRowStampedNow(ts, slug, g) ==
    [timestamp |-> NumStr(clock), slug |-> SlugText(slug),
     question |-> Slice100(g.question),
     price |-> g.price,
     best_bid |-> None, best_ask |-> None, spread |-> None,
     bid_depth |-> Num(0), ask_depth |-> Num(0),
     volume |-> g.volume, liquidity |-> g.liquidity]

GammaRow(ts, slug, g) ==
    [timestamp |-> ts, slug |-> SlugText(slug),
     question |-> Slice100(g.question),
     price |-> g.price,
     best_bid |-> None, best_ask |-> None, spread |-> None,
     bid_depth |-> Num(0), ask_depth |-> Num(0),
     volume |-> g.volume, liquidity |-> g.liquidity]

\* csv.DictWriter writes None as the empty string
CsvCell(v) == IF v.t = "null" THEN Text(<<>>) ELSE v
Line(row) == [k \in 1..Len(fieldnames) |-> CsvCell(row[fieldnames[k]])]
Header == [k \in 1..Len(fieldnames) |-> Text(<<fieldnames[k]>>)]

\* write_to_csv writing the header on every call
write_to_csv_header_always(exists, lines, rws) ==
    lines \o <<Header>> \o [k \in 1..Len(rws) |-> Line(rws[k])]

\* the lines of DATA_FILE after write_to_csv(rws)
write_to_csv(exists, lines, rws) ==
    lines \o (IF ~exists THEN <<Header>> ELSE <<>>)
          \o [k \in 1..Len(rws) |-> Line(rws[k])]

-----------------------------------------------------------------------------
(* The responses of the two services.  A request that raises (transport    *)
(* error, timeout) or whose resp.ok is false has status "error".           *)

Q == Text(<<"W", "i", "l", "l", "?">>)
LongQ == Text([k \in 1..101 |-> "x"])
YesNo == <<Yes, Text(<<"No">>)>>

Mkt(tokens, question, outcomes, prices, volume, liquidity) ==
    [clobTokenIds |-> tokens, question |-> question, outcomes |-> outcomes,
     outcomePrices |-> prices, volume |-> volume, liquidity |-> liquidity]

Events(title, ms) ==
    [status |-> "ok", events |-> <<[title |-> title, markets |-> ms]>>]

EvError == [status |-> "error", events |-> <<>>]
EvEmpty == [status |-> "ok", events |-> <<>>]
\* the first market has a YES and a NO token
EvToken ==
    Events(Q, <<Mkt(<<Text(<<"123">>), Text(<<"456">>)>>, LongQ, YesNo,
                    NoPrices, Text(<<"900">>), Missing)>>)
\* "question": null
EvTokenNullQ ==
    Events(Q, <<Mkt(<<Text(<<"123">>)>>, None, YesNo, NoPrices, Missing, Missing)>>)
\* the first market's first token id is "", the second market's is "789"
EvEmptyTokenFirst ==
    Events(Q, <<Mkt(<<Text(<<>>)>>, Q, YesNo,
                    PriceListStr(<<NumStr(40000), NumStr(60000)>>),
                    Missing, Missing),
                Mkt(<<Text(<<"789">>)>>, Q, <<>>, NoPrices, Missing, Missing)>>)
\* no token ids, outcomePrices '["0.95","0.05"]', volume "12345"
EvPricesStr ==
    Events(Q, <<Mkt(<<>>, Q, YesNo,
                    PriceListStr(<<NumStr(95000), NumStr(5000)>>),
                    Text(<<"12345">>), Missing)>>)
\* no token ids, outcomePrices [0, 1], no question
EvPricesZero ==
    Events(Q, <<Mkt(<<>>, Missing, YesNo,
                    PriceList(<<Num(0), Num(100000)>>),
                    Text(<<"77">>), Text(<<"5">>))>>)
\* no token ids, an outcomePrices string that is no list
EvPricesBad ==
    Events(Q, <<Mkt(<<>>, Q, YesNo, PriceText, Missing, Missing)>>)
\* no token ids, no outcomePrices
EvNoPrices ==
    Events(Q, <<Mkt(<<>>, Q, YesNo, NoPrices, Missing, Missing)>>)

EventResponses ==
    {EvError, EvEmpty, EvToken, EvTokenNullQ, EvEmptyTokenFirst, EvPricesStr,
     EvPricesZero, EvPricesBad, EvNoPrices}

Level(price, size) == [price |-> price, size |-> size]
Book(bids, asks) == [status |-> "ok", bids |-> bids, asks |-> asks]

BookError == [status |-> "error", bids |-> <<>>, asks |-> <<>>]
\* bids 0.62 x 100 and 0.61 x 20.5, asks 0.65004 x 50.123
BookFull ==
    Book(<<Level(NumStr(62000), NumStr(10000000)),
           Level(NumStr(61000), NumStr(2050000))>>,
         <<Level(NumStr(65004), NumStr(5012300))>>)
\* a best bid of 0
BookZeroBid ==
    Book(<<Level(NumStr(0), NumStr(1000000))>>,
         <<Level(NumStr(50000), NumStr(500000))>>)
\* the price of the best ask is no number
BookBadAsk ==
    Book(<<Level(NumStr(50000), NumStr(1000000))>>,
         <<Level(Text(<<"a", "b", "c">>), NumStr(500000))>>)
BookNoBids == Book(<<>>, <<Level(NumStr(65000), NumStr(5000000))>>)
BookEmpty == Book(<<>>, <<>>)

BookResponses ==
    {BookError, BookFull, BookZeroBid, BookBadAsk, BookNoBids, BookEmpty}

MidError == [status |-> "error", mid |-> Missing]
MidResponses ==
    {MidError, [status |-> "ok", mid |-> NumStr(63500)],
     [status |-> "ok", mid |-> Missing]}

\* the responses of the runs of SpecRuns
FewEventResponses == {EvError, EvToken, EvTokenNullQ, EvPricesStr}
FewBookResponses == {BookFull}
FewMidResponses == {[status |-> "ok", mid |-> NumStr(63500)]}

-----------------------------------------------------------------------------
(* main *)

N == Len(MARKET_SLUGS)
Ended == {"idle", "done", "crashed"}

Init ==
    /\ file_exists = FALSE
    /\ file = <<>>
    /\ clock = 0
    /\ runs = 0
    /\ pc = "idle"
    /\ timestamp = NumStr(0)
    /\ rows = <<>>
    /\ i = 1
    /\ markets = <<>>
    /\ token_id = None
    /\ book = BookError
    /\ orderbook = DefaultOrderbook
    /\ midpoint = None
    /\ event = EvError
    /\ gamma_data = NoGamma
    /\ log = <<>>

\* what one iteration of the for loop leaves behind is read by no later one
FreshLocals ==
    /\ markets' = <<>>
    /\ token_id' = None
    /\ book' = BookError
    /\ orderbook' = DefaultOrderbook
    /\ midpoint' = None
    /\ event' = EvError
    /\ gamma_data' = NoGamma

\* a new invocation of main, after the last one ended: lines 185-188
StartRun(limit) ==
    /\ pc \in Ended
    /\ runs < limit
    /\ runs' = runs + 1
    /\ timestamp' = NumStr(clock)
    /\ rows' = <<>>
    /\ i' = 1
    /\ log' = <<>>
    /\ pc' = "loop"
    /\ clock' = clock + 1
    /\ FreshLocals
    /\ UNCHANGED <<file_exists, file>>

\* lines 190-199: the next slug, get_markets_for_event and the branch taken
FetchMarkets(responses) ==
    /\ pc = "loop"
    /\ i <= N
    /\ \E resp \in responses :
          /\ event' = resp
          /\ markets' = get_markets_for_event(MARKET_SLUGS[i], resp)
    /\ token_id' = IF UseClob(markets') THEN markets'[1].token_id ELSE None
    /\ pc' = IF UseClob(markets') THEN "book" ELSE "gamma"
    /\ clock' = clock + 1
    /\ UNCHANGED <<file_exists, file, runs, timestamp, rows, i, book,
                   orderbook, midpoint, gamma_data, log>>

\* line 201
FetchOrderbook(responses) ==
    /\ pc = "book"
    /\ \E resp \in responses :
          /\ book' = resp
          /\ orderbook' = get_orderbook(token_id, resp)
    /\ pc' = "midpoint"
    /\ UNCHANGED <<file_exists, file, clock, runs, timestamp, rows, i,
                   markets, token_id, midpoint, event, gamma_data, log>>

\* line 202
FetchMidpoint(responses) ==
    /\ pc = "midpoint"
    /\ \E resp \in responses : midpoint' = get_midpoint(token_id, resp)
    /\ pc' = "clob_row"
    /\ UNCHANGED <<file_exists, file, clock, runs, timestamp, rows, i,
                   markets, token_id, book, orderbook, event, gamma_data, log>>

\* lines 204-217 and 242; slicing a question that is no string raises
\* TypeError, which nothing catches
BuildClobRow ==
    /\ pc = "clob_row"
    /\ IF CanSlice(markets[1].question)
       THEN /\ rows' = Append(rows, ClobRow(timestamp, MARKET_SLUGS[i],
                                            markets[1], orderbook, midpoint))
            /\ log' = Append(log, "clob")
            /\ pc' = "next"
       ELSE /\ pc' = "crashed"
            /\ UNCHANGED <<rows, log>>
    /\ UNCHANGED <<file_exists, file, clock, runs, timestamp, i, markets,
                   token_id, book, orderbook, midpoint, event, gamma_data>>

\* line 221
FetchGamma(responses) ==
    /\ pc = "gamma"
    /\ \E resp \in responses :
          /\ event' = resp
          /\ gamma_data' = get_price_from_gamma(MARKET_SLUGS[i], resp)
    /\ pc' = "gamma_row"
    /\ UNCHANGED <<file_exists, file, clock, runs, timestamp, rows, i,
                   markets, token_id, book, orderbook, midpoint, log>>

\* lines 223-242
BuildGammaRow ==
    /\ pc = "gamma_row"
    /\ IF ~gamma_data.some
       THEN /\ log' = Append(log, "none")
            /\ pc' = "next"
            /\ UNCHANGED rows
       ELSE IF CanSlice(gamma_data.question)
       THEN /\ rows' = Append(rows, GammaRow(timestamp, MARKET_SLUGS[i],
                                             gamma_data))
            /\ log' = Append(log, "gamma")
            /\ pc' = "next"
       ELSE /\ pc' = "crashed"
            /\ UNCHANGED <<rows, log>>
    /\ UNCHANGED <<file_exists, file, clock, runs, timestamp, i, markets,
                   token_id, book, orderbook, midpoint, event, gamma_data>>

\* line 190: back to the head of the for loop
NextSlug ==
    /\ pc = "next"
    /\ i' = i + 1
    /\ pc' = "loop"
    /\ FreshLocals
    /\ UNCHANGED <<file_exists, file, clock, runs, timestamp, rows, log>>

\* lines 244-246
WriteRows ==
    /\ pc = "loop"
    /\ i > N
    /\ rows # <<>>
    /\ file' = write_to_csv(file_exists, file, rows)
    /\ file_exists' = TRUE
    /\ pc' = "done"
    /\ UNCHANGED <<clock, runs, timestamp, rows, i, markets, token_id, book,
                   orderbook, midpoint, event, gamma_data, log>>

\* lines 247-248
NoRows ==
    /\ pc = "loop"
    /\ i > N
    /\ rows = <<>>
    /\ pc' = "done"
    /\ UNCHANGED <<file_exists, file, clock, runs, timestamp, rows, i,
                   markets, token_id, book, orderbook, midpoint, event,
                   gamma_data, log>>

\* one invocation of main, against every response of the services
Next ==
    \/ StartRun(1)
    \/ FetchMarkets(EventResponses)
    \/ FetchOrderbook(BookResponses)
    \/ FetchMidpoint(MidResponses)
    \/ BuildClobRow
    \/ FetchGamma(EventResponses)
    \/ BuildGammaRow
    \/ NextSlug
    \/ WriteRows
    \/ NoRows

Spec == Init /\ [][Next]_vars

\* MaxRuns invocations of main, one after another, against a few responses
NextRuns ==
    \/ StartRun(MaxRuns)
    \/ FetchMarkets(FewEventResponses)
    \/ FetchOrderbook(FewBookResponses)
    \/ FetchMidpoint(FewMidResponses)
    \/ BuildClobRow
    \/ FetchGamma(FewEventResponses)
    \/ BuildGammaRow
    \/ NextSlug
    \/ WriteRows
    \/ NoRows

SpecRuns == Init /\ [][NextRuns]_vars

-----------------------------------------------------------------------------
(* Properties *)

Empty == Text(<<>>)
Col(name) == CHOOSE k \in 1..Len(fieldnames) : fieldnames[k] = name
Cell(line, name) == line[Col(name)]
IsData(line) == line # Header
DataLines(lines) == SelectSeq(lines, IsData)
IsPrefix(s, t) == Len(s) <= Len(t) /\ SubSeq(t, 1, Len(s)) = s
Last(s) == s[Len(s)]
SlugPos(row) == CHOOSE k \in 1..N : SlugText(MARKET_SLUGS[k]) = row.slug

\* main stands right after the row of slug i was built from the orderbook
AfterClobRow == pc = "next" /\ Last(log) = "clob"
\* get_orderbook has returned for slug i
OrderbookRead == pc \in {"midpoint", "clob_row"} \/ AfterClobRow

\* every price and size of the book is a number
WellFormed(b) ==
    /\ \A k \in 1..Len(b.bids) :
          CanFloat(EntryPrice(b.bids[k])) /\ CanFloat(EntrySize(b.bids[k]))
    /\ \A k \in 1..Len(b.asks) :
          CanFloat(EntryPrice(b.asks[k])) /\ CanFloat(EntrySize(b.asks[k]))

\* C1: for a book of well-formed prices (a price of 0 included) the spread of
\* the snapshot is best_ask - best_bid rounded to 4 decimals when both sides
\* have entries and null when a side is empty, and the row built on the
\* orderbook path carries that spread, best_bid and best_ask.
C1_SpreadOfBothSides ==
    (OrderbookRead /\ book.status = "ok" /\ WellFormed(book)) =>
        /\ orderbook.spread =
              IF book.bids # <<>> /\ book.asks # <<>>
              THEN Num(Round4(EntryPrice(book.asks[1]).n
                              - EntryPrice(book.bids[1]).n))
              ELSE None
        /\ AfterClobRow =>
              /\ Last(rows).spread = orderbook.spread
              /\ Last(rows).best_bid = orderbook.best_bid
              /\ Last(rows).best_ask = orderbook.best_ask

\* the event metadata the fallback read for slug i: no market has a token id,
\* the first market's outcome prices parse to numbers, its question is text
NoTokenButPrices ==
    /\ pc = "next"
    /\ Last(log) # "clob"
    /\ event.status = "ok"
    /\ event.events # <<>>
    /\ LET ms == event.events[1].markets
       IN  /\ ms # <<>>
           /\ \A m \in 1..Len(ms) : \A k \in 1..Len(ms[m].clobTokenIds) :
                  ~Truthy(ms[m].clobTokenIds[k])
           /\ ms[1].outcomePrices.t \in {"list", "liststr"}
           /\ ms[1].outcomePrices.l # <<>>
           /\ CanFloat(ms[1].outcomePrices.l[1])
           /\ CanSlice(Get(ms[1].question, Get(event.events[1].title, Empty)))

\* C2: an identifier whose metadata has no token id but parseable outcome
\* prices yields a row whose price is the first parsed price (0 included),
\* with best_bid, best_ask and spread absent, both depths 0, and the market's
\* volume and liquidity passed through.
C2_FallbackRow ==
    NoTokenButPrices =>
        LET market == event.events[1].markets[1]
            row == Last(rows)
        IN  /\ Last(log) = "gamma"
            /\ rows # <<>>
            /\ row.slug = SlugText(MARKET_SLUGS[i])
            /\ row.price = Num(market.outcomePrices.l[1].n)
            /\ row.best_bid = None /\ row.best_ask = None /\ row.spread = None
            /\ row.bid_depth = Num(0) /\ row.ask_depth = Num(0)
            /\ row.volume = Get(market.volume, Text(<<"0">>))
            /\ row.liquidity = Get(market.liquidity, Text(<<"0">>))

\* a row in memory takes no orderbook field together with volume or liquidity
RowShape(r) ==
    \/ r.volume = Empty /\ r.liquidity = Empty
    \/ /\ r.best_bid = None /\ r.best_ask = None /\ r.spread = None
       /\ r.bid_depth = Num(0) /\ r.ask_depth = Num(0)

\* the same of a line of the file, where None is written as the empty string
LineShape(l) ==
    \/ Cell(l, "volume") = Empty /\ Cell(l, "liquidity") = Empty
    \/ /\ Cell(l, "best_bid") = Empty /\ Cell(l, "best_ask") = Empty
       /\ Cell(l, "spread") = Empty
       /\ Cell(l, "bid_depth") = Num(0) /\ Cell(l, "ask_depth") = Num(0)

\* C3: every row has one of two shapes.  A row of the orderbook path has
\* volume and liquidity empty and its price, best_bid, best_ask, spread and
\* depths from get_midpoint and get_orderbook; a row of the fallback path has
\* best_bid, best_ask and spread absent, both depths 0 and its price, volume
\* and liquidity from get_price_from_gamma.  No row or line holds a best_bid,
\* best_ask, spread or non-zero depth together with a volume or liquidity.
C3_TwoShapes ==
    /\ \A k \in 1..Len(rows) : RowShape(rows[k])
    /\ \A k \in 1..Len(file) : IsData(file[k]) => LineShape(file[k])
    /\ AfterClobRow =>
          LET r == Last(rows)
          IN  /\ r.volume = Empty /\ r.liquidity = Empty
              /\ r.price = midpoint
              /\ r.best_bid = orderbook.best_bid
              /\ r.best_ask = orderbook.best_ask
              /\ r.spread = orderbook.spread
              /\ r.bid_depth = Num(Round2(orderbook.bid_depth.n))
              /\ r.ask_depth = Num(Round2(orderbook.ask_depth.n))
    /\ (pc = "next" /\ Last(log) = "gamma") =>
          LET r == Last(rows)
          IN  /\ r.best_bid = None /\ r.best_ask = None /\ r.spread = None
              /\ r.bid_depth = Num(0) /\ r.ask_depth = Num(0)
              /\ r.price = gamma_data.price
              /\ r.volume = gamma_data.volume
              /\ r.liquidity = gamma_data.liquidity

\* a written file holds a line with a best bid and a line with a volume
C3_Witness ==
    /\ pc = "done"
    /\ \E j \in 1..Len(file) : \E k \in 1..Len(file) :
          /\ IsData(file[j]) /\ Cell(file[j], "best_bid") # Empty
          /\ Cell(file[j], "bid_depth") # Num(0)
          /\ IsData(file[k]) /\ Cell(file[k], "volume") # Empty

\* the slugs of this run that printed a check mark
Yielded(l) == Len(SelectSeq(l, LAMBDA e : e # "none"))

\* C4: the dataset is append-only: every step keeps the data lines already
\* in the file, unchanged and in place, and a run that ends has added exactly
\* as many data lines as identifiers yielded data in it.
C4_AppendOnly ==
    [][/\ IsPrefix(DataLines(file), DataLines(file'))
       /\ (pc \notin Ended /\ pc' \in Ended) =>
             Len(DataLines(file')) = Len(DataLines(file)) + Yielded(log')]_vars

\* C5: a file that exists is not empty, its first line is the header and no
\* other line is: the run that creates the file writes the header, no later
\* run does, and a run without rows writes nothing.
C5_OneHeader ==
    IF file_exists
    THEN /\ file # <<>>
         /\ file[1] = Header
         /\ \A k \in 2..Len(file) : file[k] # Header
    ELSE file = <<>>

\* two runs have written rows, with different timestamps
C5_Witness ==
    /\ runs >= 2
    /\ pc = "done"
    /\ rows # <<>>
    /\ \E k \in 2..Len(file) :
          Cell(file[k], "timestamp") # Cell(file[2], "timestamp")

\* C6: no error of any sub-step aborts the run.
C6_NeverAborts == pc # "crashed"

\* handling the response raised: no response, or a price or size that float()
\* rejects among those the try block converts
Failed(b) ==
    \/ b.status # "ok"
    \/ /\ b.bids # <<>>
       /\ (~CanFloat(EntryPrice(b.bids[1])) \/ ~SizesParse(b.bids))
    \/ /\ b.asks # <<>>
       /\ (~CanFloat(EntryPrice(b.asks[1])) \/ ~SizesParse(b.asks))

\* C7: when handling the response fails at any point, get_orderbook returns
\* the all-default snapshot.
C7_FailureGivesDefault ==
    (OrderbookRead /\ Failed(book)) => orderbook = DefaultOrderbook

\* every sub-result obtained for slug i is absent or all-default
NoUsableData ==
    /\ pc = "next"
    /\ IF Last(log) = "clob"
       THEN midpoint = None /\ orderbook = DefaultOrderbook
       ELSE ~gamma_data.some

\* C8: an identifier that yields no usable data gets no row.
C8_NoDataNoRow ==
    NoUsableData =>
        \A k \in 1..Len(rows) : rows[k].slug # SlugText(MARKET_SLUGS[i])

\* the descriptors of slug i that have a non-empty token id
WithToken == {k \in 1..Len(markets) : Truthy(markets[k].token_id)}

\* C9: main takes the orderbook path with the first descriptor that has a
\* non-empty token id, and the fallback only when no descriptor has one.
C9_FirstTokenDescriptor ==
    pc \in {"book", "gamma"} =>
        IF WithToken # {}
        THEN /\ pc = "book"
             /\ token_id =
                   markets[CHOOSE k \in WithToken :
                              \A j \in WithToken : k <= j].token_id
        ELSE pc = "gamma"

\* the rows of the run: at most one per slug, in configured order, of slugs
\* already taken up, all with the timestamp of the start of the run
RowsInOrder ==
    /\ Len(rows) <= N
    /\ \A k \in 1..Len(rows) :
          /\ rows[k].timestamp = timestamp
          /\ \E p \in 1..N : SlugText(MARKET_SLUGS[p]) = rows[k].slug
          /\ SlugPos(rows[k]) <= i
          /\ \A j \in 1..(k - 1) : SlugPos(rows[j]) < SlugPos(rows[k])

\* C10: the slugs are processed one after another in configured order, each
\* to its end before the next; the run appends at most one row per slug, in
\* configured order, each with the timestamp taken at the start of the run;
\* a row once built is not changed, and the file receives the rows as built.
C10_Sequential ==
    [][/\ RowsInOrder'
       /\ timestamp' # timestamp => pc \in Ended
       /\ i' # i => (pc \in Ended /\ i' = 1) \/ (pc = "next" /\ i' = i + 1)
       /\ rows' # rows =>
             \/ pc \in Ended /\ rows' = <<>>
             \/ /\ pc \in {"clob_row", "gamma_row"}
                /\ Len(rows') = Len(rows) + 1
                /\ SubSeq(rows', 1, Len(rows)) = rows
                /\ Last(rows').slug = SlugText(MARKET_SLUGS[i])
       /\ file' # file =>
             DataLines(file') =
                 DataLines(file) \o [k \in 1..Len(rows) |-> Line(rows[k])]]_vars

\* a run that built a row for every slug and wrote them, while time passed
C10_Witness ==
    /\ pc = "done"
    /\ Len(rows) = N
    /\ Len(DataLines(file)) = N
    /\ clock > timestamp.n + N

====
